---- MODULE Spec2Model ----
(***************************************************************************)
(* Counter maintenance, topic/post lifecycle and read-tracker creation of  *)
(* pybb (src/pybb/models.py), as state machines over the relational store. *)
(*                                                                         *)
(* The store is the record db = [forum, topic, post, profile]: one         *)
(* function per table, from the primary keys of the live rows to the rows. *)
(* A model method is an operator from a store and the in-memory objects    *)
(* the method works on to the store it leaves and the exception it raised. *)
(***************************************************************************)
EXTENDS Integers, FiniteSets, Sequences, TLC

\* ------------------------------------------------------------------ bounds
MaxTopics == 2      \* topic primary keys handed out in one behaviour
MaxPosts == 3       \* post primary keys handed out in one behaviour
MaxTime == 2        \* distinct values of tznow()
MaxUsers == 2       \* users that write posts
MaxCallers == 2     \* concurrent callers of one operation each
MaxAnswers == 2     \* answers of the poll
MaxVoters == 3      \* users that vote in the poll

Forums == {"A", "B"}
Users == 1..MaxUsers
OneUser == {1}
Times == 1..MaxTime
Callers == 1..MaxCallers

\* A null DateTimeField and an unsaved object's primary key.
NULL == 0
NoId == 0

\* ------------------------------------------------------------------ state
VARIABLES
    forum,          \* Forum rows: post_count, topic_count, updated
    topic,          \* Topic rows: forum, updated, post_count, on_moderation
    post,           \* Post rows: topic, user, created, updated, on_moderation
    profile,        \* per user: post_count
    nextTopic,      \* next Topic primary key (auto-increment)
    nextPost,       \* next Post primary key (auto-increment)
    last,           \* the last operation, its arguments and how it ended
    trip,           \* the consecutive moves of one topic that end in `last`
    uncounted,      \* forums given a new topic since they were last recomputed
    call,           \* per concurrent caller: its step and its in-memory objects
    tracker,        \* committed read-tracker rows: key, time_stamp
    nextTracker,    \* next read-tracker primary key
    isolation,      \* the database's transaction isolation level
    sess,           \* per caller of get_or_create_tracker: its database session
    poll            \* the poll of one topic: its type, its votes, the percentages shown

storeVars == <<forum, topic, post, profile>>

Store == [forum |-> forum, topic |-> topic, post |-> post, profile |-> profile]

Ok(db) == [db |-> db, raised |-> ""]
Raise(db, exc) == [db |-> db, raised |-> exc]

\* ---------------------------------------------------------------- queries
\* Post.objects.filter(topic_id=t) / topic.posts
TopicPosts(db, t) == {i \in DOMAIN db.post : db.post[i].topic = t}

\* Topic.objects.filter(forum=f)
ForumTopics(db, f) == {t \in DOMAIN db.topic : db.topic[t].forum = f}

\* Post.objects.filter(topic__forum_id=f): the join of Post with Topic
ForumPosts(db, f) ==
    {i \in DOMAIN db.post :
        /\ db.post[i].topic \in DOMAIN db.topic
        /\ db.topic[db.post[i].topic].forum = f}

\* user.posts
UserPosts(db, u) == {i \in DOMAIN db.post : db.post[i].user = u}

\* order_by('created', 'id'): i sorts before j
Before(db, i, j) ==
    \/ db.post[i].created < db.post[j].created
    \/ db.post[i].created = db.post[j].created /\ i < j

\* Mutant of FirstPost: order_by('id')[0], the creation time ignored.
FirstPostById(db, S) == CHOOSE i \in S : \A j \in S : i <= j

\* order_by('created', 'id')[0] over a non-empty set of posts
FirstPost(db, S) == CHOOSE i \in S : \A j \in S \ {i} : Before(db, i, j)

\* Mutant of LastPost: among the posts created last, the lowest id.
LastPostLowestId(db, S) ==
    CHOOSE i \in S : \A j \in S \ {i} :
        \/ db.post[j].created < db.post[i].created
        \/ db.post[j].created = db.post[i].created /\ i < j

\* order_by('-created', '-id')[0] over a non-empty set of posts
LastPost(db, S) == CHOOSE i \in S : \A j \in S \ {i} : Before(db, j, i)

\* last_post.updated or last_post.created
UpdatedOrCreated(p) == IF p.updated # NULL THEN p.updated ELSE p.created

\* An object as a fresh read of its row gives it.
LoadForum(db, f) ==
    [id |-> f, post_count |-> db.forum[f].post_count,
     topic_count |-> db.forum[f].topic_count, updated |-> db.forum[f].updated]

LoadTopic(db, t) ==
    [id |-> t, forum |-> db.topic[t].forum, updated |-> db.topic[t].updated,
     post_count |-> db.topic[t].post_count,
     on_moderation |-> db.topic[t].on_moderation,
     head_set |-> FALSE, head_first |-> NoId]

LoadPost(db, p) ==
    [id |-> p, topic |-> db.post[p].topic, user |-> db.post[p].user,
     created |-> db.post[p].created, updated |-> db.post[p].updated,
     on_moderation |-> db.post[p].on_moderation]

TopicRow(obj) ==
    [forum |-> obj.forum, updated |-> obj.updated, post_count |-> obj.post_count,
     on_moderation |-> obj.on_moderation]

PostRow(obj) ==
    [topic |-> obj.topic, user |-> obj.user, created |-> obj.created,
     updated |-> obj.updated, on_moderation |-> obj.on_moderation]

\* Mutant of Forum_update_counters: topic_count is not recounted.
Forum_update_counters_stale_topics(db, self) ==
    LET posts == ForumPosts(db, self.id)
        updated == IF posts # {}
                   THEN UpdatedOrCreated(db.post[LastPost(db, posts)])
                   ELSE self.updated
    IN [db EXCEPT !.forum[self.id] =
            [post_count |-> Cardinality(posts),
             topic_count |-> self.topic_count,
             updated |-> updated]]

\* Mutant of Forum_counters_read: updated is reset when no post is found.
Forum_counters_read_reset(db, self) ==
    LET posts == ForumPosts(db, self.id)
    IN [self EXCEPT
          !.post_count = Cardinality(posts),
          !.topic_count = Cardinality(ForumTopics(db, self.id)),
          !.updated = IF posts # {}
                      THEN UpdatedOrCreated(db.post[LastPost(db, posts)])
                      ELSE NULL]

\* ----------------------------------------------------------------- Forum
\* The queries of Forum.update_counters on the in-memory forum `self`: the
\* counts are read from the store, `updated` is overwritten only when a post
\* is found.
Forum_counters_read(db, self) ==
    LET posts == ForumPosts(db, self.id)
    IN [self EXCEPT
          !.post_count = Cardinality(posts),
          !.topic_count = Cardinality(ForumTopics(db, self.id)),
          !.updated = IF posts # {}
                      THEN UpdatedOrCreated(db.post[LastPost(db, posts)])
                      ELSE @]

\* self.save() of a forum writes every field of the object.
Forum_save(db, self) ==
    [db EXCEPT !.forum[self.id] =
        [post_count |-> self.post_count, topic_count |-> self.topic_count,
         updated |-> self.updated]]

\* Forum.update_counters: the queries, then the save.
Forum_update_counters(db, self) == Forum_save(db, Forum_counters_read(db, self))

\* --------------------------------------------------------- signal handlers
\* post_saved, connected to post_save of Post: a created post recounts its
\* author's profile.  (Notification and subscription are other modules'.)
post_saved(db, instance, created) ==
    IF created
    THEN [db EXCEPT !.profile[instance.user] =
            [post_count |-> Cardinality(UserPosts(db, instance.user))]]
    ELSE db

\* post_deleted, connected to post_delete of Post, for every deleted post of
\* `users`: the signal is sent once the rows are gone.
post_deleted(db, users) ==
    [db EXCEPT !.profile =
        [u \in DOMAIN db.profile |->
            IF u \in users
            THEN [post_count |-> Cardinality(UserPosts(db, u))]
            ELSE db.profile[u]]]

\* Mutant of Topic_head: the latest post taken for the head.
Topic_head_latest(db, self) ==
    IF self.head_set THEN self.head_first
    ELSE IF TopicPosts(db, self.id) = {} THEN NoId
    ELSE LastPost(db, TopicPosts(db, self.id))

\* Mutant of Topic_save: a changed forum recomputes the new forum only.
Topic_save_new_forum_only(db, self, pk) ==
    IF self.id = NoId
    THEN Ok([db EXCEPT !.topic = @ @@ (pk :> TopicRow(self))])
    ELSE IF self.id \notin DOMAIN db.topic
    THEN Raise(db, "DoesNotExist")
    ELSE LET d1 == [db EXCEPT !.topic[self.id] = TopicRow(self)]
         IN Ok(IF self.forum # db.topic[self.id].forum
               THEN Forum_update_counters(d1, LoadForum(d1, self.forum))
               ELSE d1)

\* Mutant of Topic_delete_rows: the cascade sends no post_delete.
Topic_delete_rows_silent(db, self) ==
    [db EXCEPT
        !.topic = [t \in DOMAIN db.topic \ {self.id} |-> db.topic[t]],
        !.post = [i \in DOMAIN db.post \ TopicPosts(db, self.id) |-> db.post[i]]]

\* Mutant of Topic_update_counters: the IndexError is passed on as in
\* Forum.update_counters, and the count is saved.
Topic_update_counters_tolerant(db, self) ==
    IF TopicPosts(db, self.id) = {}
    THEN Ok([db EXCEPT !.topic[self.id].post_count = 0])
    ELSE LET posts == TopicPosts(db, self.id)
         IN Ok([db EXCEPT !.topic[self.id] =
                [TopicRow(self) EXCEPT
                    !.post_count = Cardinality(posts),
                    !.updated = UpdatedOrCreated(db.post[LastPost(db, posts)])]])

\* ----------------------------------------------------------------- Topic
\* Topic.head: the first post by (created, id), or None; the query result is
\* kept on the object once read.
Topic_head(db, self) ==
    IF self.head_set THEN self.head_first
    ELSE IF TopicPosts(db, self.id) = {} THEN NoId
    ELSE FirstPost(db, TopicPosts(db, self.id))

\* Topic.save: a new topic (id None) is inserted under key pk and no forum is
\* recomputed; an existing one is compared with its persisted row, written
\* with every field of the object, and both forums are recomputed when the
\* forum changed.
Topic_save(db, self, pk) ==
    IF self.id = NoId
    THEN Ok([db EXCEPT !.topic = @ @@ (pk :> TopicRow(self))])
    ELSE IF self.id \notin DOMAIN db.topic
    THEN Raise(db, "DoesNotExist")
    ELSE LET old_topic == LoadTopic(db, self.id)
             forum_changed == self.forum # old_topic.forum
             d1 == [db EXCEPT !.topic[self.id] = TopicRow(self)]
             d2 == Forum_update_counters(d1, LoadForum(d1, old_topic.forum))
             d3 == Forum_update_counters(d2, LoadForum(d2, self.forum))
         IN Ok(IF forum_changed THEN d3 ELSE d1)

\* super(Topic, self).delete(): the row goes with every post that references
\* it (the cascade of the foreign key), and post_delete is sent for each.
Topic_delete_rows(db, self) ==
    LET gone == TopicPosts(db, self.id)
        d1 == [db EXCEPT
                !.topic = [t \in DOMAIN db.topic \ {self.id} |-> db.topic[t]],
                !.post = [i \in DOMAIN db.post \ gone |-> db.post[i]]]
    IN post_deleted(d1, {db.post[i].user : i \in gone})

\* Topic.delete: the rows go, then the object's forum is recomputed.
Topic_delete(db, self) ==
    LET d2 == Topic_delete_rows(db, self)
    IN Ok(Forum_update_counters(d2, LoadForum(d2, self.forum)))

\* The queries of Topic.update_counters: the object with its new post_count
\* and updated; indexing the empty query raises IndexError.
Topic_counters_read(db, self) ==
    LET posts == TopicPosts(db, self.id)
    IN IF posts = {}
       THEN [obj |-> self, raised |-> "IndexError"]
       ELSE [obj |-> [self EXCEPT
                        !.post_count = Cardinality(posts),
                        !.updated = UpdatedOrCreated(db.post[LastPost(db, posts)])],
             raised |-> ""]

\* Topic.update_counters: the queries, then self.save(); an IndexError leaves
\* before anything is written.
Topic_update_counters(db, self) ==
    LET r == Topic_counters_read(db, self)
    IN IF r.raised # "" THEN Raise(db, r.raised)
       ELSE Topic_save(db, r.obj, NoId)

\* ------------------------------------------------------------------ Post
\* The moderation rule of Post.save for the saved post `self`: the in-memory
\* topic loses its flag when the post is the topic's head, is not on
\* moderation and the topic is.
Post_moderate_topic(db, self, topicObj) ==
    IF /\ Topic_head(db, topicObj) = self.id
       /\ ~self.on_moderation
       /\ topicObj.on_moderation
    THEN [topicObj EXCEPT !.on_moderation = FALSE]
    ELSE topicObj

\* super(Post, self).save(): the row is inserted under `id` or updated, and
\* post_save is sent.
Post_save_row(db, self, id, new) ==
    post_saved(IF new THEN [db EXCEPT !.post = @ @@ (id :> PostRow(self))]
               ELSE [db EXCEPT !.post[id] = PostRow(self)],
               self, new)

\* super(Post, self).delete(): the row goes and post_delete is sent.
Post_delete_row(db, self) ==
    post_deleted([db EXCEPT !.post = [i \in DOMAIN db.post \ {self.id} |-> db.post[i]]],
                 {self.user})

\* Post.save of the in-memory post `self` whose topic attribute holds the
\* in-memory topic `topicObj`; created_at is tznow() and pk the key an insert
\* gives.  An exception ends the method where it is raised: what was written
\* before stays written (no transaction is opened).  The row write fails on
\* the foreign key when the topic row is gone.
Post_save(db, self, topicObj, created_at, pk) ==
    LET new == self.id = NoId
        id == IF new THEN pk ELSE self.id
        obj == [self EXCEPT
                  !.created = IF self.created = NULL THEN created_at ELSE @]
        old_post == IF new THEN obj ELSE LoadPost(db, self.id)
        topic_changed == ~new /\ old_post.topic # obj.topic
        d1 == Post_save_row(db, obj, id, new)
        t1 == Post_moderate_topic(d1, [obj EXCEPT !.id = id], topicObj)
        r2 == Topic_update_counters(d1, t1)
        d3 == Forum_update_counters(r2.db, LoadForum(r2.db, t1.forum))
        oldTopic == LoadTopic(d3, old_post.topic)
        r4 == Topic_update_counters(d3, oldTopic)
        d5 == Forum_update_counters(r4.db, LoadForum(r4.db, oldTopic.forum))
    IN IF obj.topic \notin DOMAIN db.topic THEN Raise(db, "IntegrityError")
       ELSE IF r2.raised # "" THEN r2
       ELSE IF ~topic_changed THEN Ok(d3)
       ELSE IF r4.raised # "" THEN r4
       ELSE Ok(d5)

\* Post.delete of the in-memory post `self` whose topic attribute holds
\* `topicObj`: the head post takes the topic with it, any other post is
\* removed alone and the counters are recomputed.
Post_delete(db, self, topicObj) ==
    LET posts == TopicPosts(db, topicObj.id)
        head_post_id == FirstPost(db, posts)
        d2 == Post_delete_row(db, self)
        r3 == Topic_update_counters(d2, topicObj)
    IN IF posts = {} THEN Raise(db, "IndexError")
       ELSE IF self.id = head_post_id THEN Topic_delete(db, topicObj)
       ELSE IF r3.raised # "" THEN r3
       ELSE Ok(Forum_update_counters(r3.db, LoadForum(r3.db, topicObj.forum)))

\* ------------------------------------------------- the lifecycle operations
\* Every operation is one call on freshly read objects, taken as a whole.
trackerVars == <<tracker, nextTracker, isolation, sess>>

vars == <<forum, topic, post, profile, nextTopic, nextPost, last, trip, uncounted,
          call, tracker, nextTracker, isolation, sess, poll>>

\* Objects not read yet, and a caller that has not called.
NoPost ==
    [id |-> NoId, topic |-> NoId, user |-> NoId, created |-> NULL,
     updated |-> NULL, on_moderation |-> FALSE]

NoTopic ==
    [id |-> NoId, forum |-> "", updated |-> NULL, post_count |-> 0,
     on_moderation |-> FALSE, head_set |-> FALSE, head_first |-> NoId]

NoForum == [id |-> "", post_count |-> 0, topic_count |-> 0, updated |-> NULL]

Idle ==
    [pc |-> "idle", op |-> "", self |-> NoPost, topicObj |-> NoTopic,
     forumObj |-> NoForum, raised |-> ""]

\* A session that has not called get_or_create_tracker.
NoSession ==
    [pc |-> "idle", key |-> "", mode |-> "", txn |-> "none", snapshot |-> {},
     snapped |-> FALSE, pending |-> << >>, earlier |-> FALSE, obj |-> NoId,
     is_new |-> FALSE, raised |-> ""]

Levels == {"READ COMMITTED", "REPEATABLE READ"}

\* The read-tracker tables the two managers write: (user, topic) rows and
\* (user, forum) rows, one user and one target of each.
Keys == {"topic", "forum"}

NoTrackers ==
    /\ tracker = << >>
    /\ nextTracker = 1
    /\ isolation = "READ COMMITTED"
    /\ sess = [c \in Callers |-> NoSession]

\* Topic.POLL_TYPE_*
POLL_TYPE_NONE == 0
POLL_TYPE_SINGLE == 1
POLL_TYPE_MULTIPLE == 2

Answers == 1..MaxAnswers
Voters == 1..MaxVoters

\* A topic with poll answers, no PollAnswerUser row and no percentage asked for.
NoPoll == [poll_type |-> POLL_TYPE_SINGLE, votes |-> {}, shown |-> << >>, at |-> {}]

NoOp == [op |-> "none", raised |-> "", p |-> NoId, t |-> NoId, tmod |-> FALSE]

Init ==
    /\ forum = [f \in Forums |->
                  [post_count |-> 0, topic_count |-> 0, updated |-> NULL]]
    /\ topic = << >>
    /\ post = << >>
    /\ profile = [u \in Users |-> [post_count |-> 0]]
    /\ nextTopic = 1
    /\ nextPost = 1
    /\ last = NoOp
    /\ trip = << >>
    /\ uncounted = {}
    /\ call = [c \in Callers |-> Idle]
    /\ NoTrackers
    /\ poll = NoPoll

\* The store after the call, and what the call was: the operation, the post
\* and topic it was called on, the topic's moderation flag before the call
\* and the exception that ended it.
Ends(r, op, p, t) ==
    /\ forum' = r.db.forum
    /\ topic' = r.db.topic
    /\ post' = r.db.post
    /\ profile' = r.db.profile
    /\ last' = [op |-> op, raised |-> r.raised, p |-> p, t |-> t,
                tmod |-> IF t \in DOMAIN topic THEN topic[t].on_moderation
                         ELSE FALSE]
    /\ UNCHANGED <<trackerVars, poll>>

Completes(r, op, p, t) == Ends(r, op, p, t) /\ UNCHANGED call

\* The counters the forums show and whether they are the true counts.
Counters(db) ==
    [f \in Forums |-> [post_count |-> db.forum[f].post_count,
                       topic_count |-> db.forum[f].topic_count]]

TrueCounters(db) ==
    [f \in Forums |-> [post_count |-> Cardinality(ForumPosts(db, f)),
                       topic_count |-> Cardinality(ForumTopics(db, f))]]

\* Topic(forum=f, on_moderation=m).save()
CreateTopic(f, m) ==
    /\ nextTopic <= MaxTopics
    /\ LET self == [id |-> NoId, forum |-> f, updated |-> NULL, post_count |-> 0,
                    on_moderation |-> m, head_set |-> FALSE, head_first |-> NoId]
       IN Completes(Topic_save(Store, self, nextTopic), "Topic.create", NoId, nextTopic)
    /\ nextTopic' = nextTopic + 1
    /\ uncounted' = uncounted \cup {f}
    /\ trip' = << >>
    /\ UNCHANGED nextPost

\* topic.forum = g; topic.save()
MoveTopic(t, g) ==
    /\ t \in DOMAIN topic
    /\ LET self == [LoadTopic(Store, t) EXCEPT !.forum = g]
           from == topic[t].forum
           move == [t |-> t, from |-> from, to |-> g, pre |-> Counters(Store),
                    exact |-> Counters(Store) = TrueCounters(Store)]
       IN /\ Completes(Topic_save(Store, self, NoId), "Topic.save", NoId, t)
          /\ uncounted' = IF g # from THEN uncounted \ {from, g} ELSE uncounted
          /\ trip' = IF g = from THEN << >>
                     ELSE IF /\ Len(trip) = 1
                             /\ trip[1].t = t
                             /\ trip[1].to = from
                             /\ trip[1].from = g
                          THEN Append(trip, move)
                          ELSE <<move>>
    /\ UNCHANGED <<nextTopic, nextPost>>

\* topic.delete()
DeleteTopic(t) ==
    /\ t \in DOMAIN topic
    /\ Completes(Topic_delete(Store, LoadTopic(Store, t)), "Topic.delete", NoId, t)
    /\ uncounted' = uncounted \ {topic[t].forum}
    /\ trip' = << >>
    /\ UNCHANGED <<nextTopic, nextPost>>

\* Post(topic=t, user=u, on_moderation=m).save(), tznow() giving ts
CreatePost(t, u, m, ts) ==
    /\ nextPost <= MaxPosts
    /\ t \in DOMAIN topic
    /\ LET self == [id |-> NoId, topic |-> t, user |-> u, created |-> NULL,
                    updated |-> NULL, on_moderation |-> m]
       IN Completes(Post_save(Store, self, LoadTopic(Store, t), ts, nextPost),
                    "Post.create", nextPost, t)
    /\ nextPost' = nextPost + 1
    /\ uncounted' = uncounted \ {topic[t].forum}
    /\ trip' = << >>
    /\ UNCHANGED nextTopic

\* post.topic = t2; post.on_moderation = m; post.updated = upd; post.save()
SavePost(p, t2, m, upd) ==
    /\ p \in DOMAIN post
    /\ t2 \in DOMAIN topic
    /\ LET self == [LoadPost(Store, p) EXCEPT
                        !.topic = t2, !.on_moderation = m,
                        !.updated = IF upd = NULL THEN @ ELSE upd]
           r == Post_save(Store, self, LoadTopic(Store, t2), NULL, NoId)
           old == post[p].topic
       IN /\ Completes(r, "Post.save", p, t2)
          /\ uncounted' = uncounted \
                ({topic[t2].forum} \cup
                 (IF old # t2 /\ r.raised = "" THEN {topic[old].forum} ELSE {}))
    /\ trip' = << >>
    /\ UNCHANGED <<nextTopic, nextPost>>

\* post.delete()
DeletePost(p) ==
    /\ p \in DOMAIN post
    /\ LET self == LoadPost(Store, p)
       IN /\ Completes(Post_delete(Store, self, LoadTopic(Store, self.topic)),
                       "Post.delete", p, self.topic)
          /\ uncounted' = uncounted \ {topic[self.topic].forum}
    /\ trip' = << >>
    /\ UNCHANGED <<nextTopic, nextPost>>

\* The operations with their inputs drawn from: the forums Fs, the moderation
\* flags Mods, the edit stamps Upds (NULL leaves post.updated as it is) and
\* the authors Us.
Lifecycle(Fs, Mods, Upds, Us) ==
    \/ \E f \in Fs, m \in Mods : CreateTopic(f, m)
    \/ \E t \in 1..MaxTopics, g \in Fs : MoveTopic(t, g)
    \/ \E t \in 1..MaxTopics : DeleteTopic(t)
    \/ \E t \in 1..MaxTopics, u \in Us, m \in Mods, ts \in Times :
            CreatePost(t, u, m, ts)
    \/ \E p \in 1..MaxPosts, t2 \in 1..MaxTopics, m \in Mods, upd \in Upds :
            SavePost(p, t2, m, upd)
    \/ \E p \in 1..MaxPosts : DeletePost(p)

\* Counters and structure: two forums, nothing on moderation.
Next == Lifecycle(Forums, {FALSE}, {NULL}, OneUser)

Spec == Init /\ [][Next]_vars

\* Moderation: one forum, topics and posts on and off moderation.
NextModeration == Lifecycle({"A"}, BOOLEAN, {NULL}, OneUser)

SpecModeration == Init /\ [][NextModeration]_vars

\* topic.update_counters(), called on its own
UpdateTopicCounters(t) ==
    /\ t \in DOMAIN topic
    /\ Completes(Topic_update_counters(Store, LoadTopic(Store, t)),
                 "Topic.update_counters", NoId, t)
    /\ trip' = << >>
    /\ UNCHANGED <<nextTopic, nextPost, uncounted>>

RecountOp(f) == IF f = "A" THEN "A.update_counters" ELSE "B.update_counters"

\* forum.update_counters(), called on its own
UpdateForumCounters(f) ==
    /\ Completes(Ok(Forum_update_counters(Store, LoadForum(Store, f))),
                 RecountOp(f), NoId, NoId)
    /\ uncounted' = uncounted \ {f}
    /\ trip' = << >>
    /\ UNCHANGED <<nextTopic, nextPost>>

\* Recomputes: the operations and the two recomputes called on their own.
NextRecount ==
    \/ Lifecycle(Forums, {FALSE}, {NULL}, OneUser)
    \/ \E t \in 1..MaxTopics : UpdateTopicCounters(t)
    \/ \E f \in Forums : UpdateForumCounters(f)

SpecRecount == Init /\ [][NextRecount]_vars

\* A Topic object kept in memory over several operations: call[c].topicObj,
\* read from the store by HoldTopic.
HoldTopic(c, t) ==
    /\ call[c].pc = "idle"
    /\ t \in DOMAIN topic
    /\ call' = [call EXCEPT ![c] =
            [Idle EXCEPT !.pc = "holding", !.topicObj = LoadTopic(Store, t)]]
    /\ UNCHANGED <<storeVars, nextTopic, nextPost, last, trip, uncounted,
                   trackerVars, poll>>

\* topic.head is read on the kept object: the query runs on the first read
\* and its result stays on the object (self._head).
AccessHead(c) ==
    /\ call[c].pc = "holding"
    /\ ~call[c].topicObj.head_set
    /\ call' = [call EXCEPT
            ![c].topicObj.head_set = TRUE,
            ![c].topicObj.head_first = Topic_head(Store, call[c].topicObj)]
    /\ UNCHANGED <<storeVars, nextTopic, nextPost, last, trip, uncounted,
                   trackerVars, poll>>

\* Post(topic=topic, user=u, on_moderation=m).save() on the kept object
SaveHeldPost(c, u, m, ts) ==
    /\ call[c].pc = "holding"
    /\ nextPost <= MaxPosts
    /\ LET t == call[c].topicObj.id
           self == [NoPost EXCEPT !.topic = t, !.user = u, !.on_moderation = m]
       IN Ends(Post_save(Store, self, call[c].topicObj, ts, nextPost),
               "Post.create", nextPost, t)
    /\ nextPost' = nextPost + 1
    /\ call' = [call EXCEPT ![c].pc = "saved"]
    /\ trip' = << >>
    /\ UNCHANGED <<nextTopic, uncounted>>

\* post.delete() of a post whose topic attribute is the kept object
DeleteHeldPost(c, p) ==
    /\ call[c].pc = "holding"
    /\ p \in TopicPosts(Store, call[c].topicObj.id)
    /\ Ends(Post_delete(Store, LoadPost(Store, p), call[c].topicObj),
            "Post.delete", p, call[c].topicObj.id)
    /\ call' = [call EXCEPT ![c].pc = "deleted"]
    /\ trip' = << >>
    /\ UNCHANGED <<nextTopic, nextPost, uncounted>>

\* The request that kept the object is over.
DropTopic(c) ==
    /\ call[c].pc \in {"holding", "saved", "deleted"}
    /\ call' = [call EXCEPT ![c] = Idle]
    /\ UNCHANGED <<storeVars, nextTopic, nextPost, last, trip, uncounted,
                   trackerVars, poll>>

\* Kept objects: one forum, topics and posts on and off moderation, created
\* and deleted while a caller keeps a Topic object.
NextHeld ==
    \/ \E m \in BOOLEAN : CreateTopic("A", m)
    \/ \E t \in 1..MaxTopics, u \in OneUser, m \in BOOLEAN, ts \in Times :
            CreatePost(t, u, m, ts)
    \/ \E p \in 1..MaxPosts : DeletePost(p)
    \/ \E c \in OneUser, t \in 1..MaxTopics : HoldTopic(c, t)
    \/ \E c \in OneUser : AccessHead(c)
    \/ \E c \in OneUser, u \in OneUser, m \in BOOLEAN, ts \in Times :
            SaveHeldPost(c, u, m, ts)
    \/ \E c \in OneUser, p \in 1..MaxPosts : DeleteHeldPost(c, p)
    \/ \E c \in OneUser : DropTopic(c)

SpecHeld == Init /\ [][NextHeld]_vars

\* Edits: one forum, posts saved with a new updated stamp.
NextEdits == Lifecycle({"A"}, {FALSE}, Times \cup {NULL}, OneUser)

SpecEdits == Init /\ [][NextEdits]_vars

\* Profiles: one forum, posts of every user.
NextProfile == Lifecycle({"A"}, {FALSE}, {NULL}, Users)

SpecProfile == Init /\ [][NextProfile]_vars

\* ------------------------------------------------------ concurrent callers
\* Each caller makes one call of Post.save (a new post) or Post.delete, and
\* takes it one store access at a time: the row write, the queries of a
\* recompute, the save of a recompute.  No step holds a lock or a
\* transaction: every write is visible to the other callers at once.
NewTopic(f) == [NoTopic EXCEPT !.forum = f]

NewPost(t, u) == [NoPost EXCEPT !.topic = t, !.user = u]

EmptyStore ==
    [forum |-> [f \in Forums |->
                  [post_count |-> 0, topic_count |-> 0, updated |-> NULL]],
     topic |-> << >>,
     post |-> << >>,
     profile |-> [u \in Users |-> [post_count |-> 0]]]

\* The store the callers start from, as the sequential operations leave it
\* (two Topic.save, three Post.save): topic 1 in forum A with posts 1 (its
\* head) and 2, topic 2 in forum g with post 3, every counter recomputed.
RaceRows(g) ==
    [EmptyStore EXCEPT
        !.topic = <<[forum |-> "A", updated |-> 1, post_count |-> 2,
                     on_moderation |-> FALSE],
                    [forum |-> g, updated |-> 1, post_count |-> 1,
                     on_moderation |-> FALSE]>>,
        !.post = <<PostRow([NewPost(1, 1) EXCEPT !.created = 1]),
                   PostRow([NewPost(1, 1) EXCEPT !.created = 1]),
                   PostRow([NewPost(2, 1) EXCEPT !.created = 1])>>]

RaceStore(g) ==
    [RaceRows(g) EXCEPT
        !.forum = [f \in Forums |->
            [post_count |-> Cardinality(ForumPosts(RaceRows(g), f)),
             topic_count |-> Cardinality(ForumTopics(RaceRows(g), f)),
             updated |-> IF ForumPosts(RaceRows(g), f) # {} THEN 1 ELSE NULL]],
        !.profile = [u \in Users |->
            [post_count |-> Cardinality(UserPosts(RaceRows(g), u))]]]

\* The same store, built by the operations themselves.
RaceStoreBuilt(g) ==
    LET s1 == Topic_save(EmptyStore, NewTopic("A"), 1).db
        s2 == Topic_save(s1, NewTopic(g), 2).db
        s3 == Post_save(s2, NewPost(1, 1), LoadTopic(s2, 1), 1, 1).db
        s4 == Post_save(s3, NewPost(1, 1), LoadTopic(s3, 1), 1, 2).db
    IN Post_save(s4, NewPost(2, 1), LoadTopic(s4, 2), 1, 3).db

InitRace ==
    /\ \E g \in Forums :
        /\ forum = RaceStore(g).forum
        /\ topic = RaceStore(g).topic
        /\ post = RaceStore(g).post
        /\ profile = RaceStore(g).profile
    /\ nextTopic = 3
    /\ nextPost = 4
    /\ last = NoOp
    /\ trip = << >>
    /\ uncounted = {}
    /\ call = [c \in Callers |-> Idle]
    /\ NoTrackers
    /\ poll = NoPoll

ghostVars == <<nextTopic, last, trip, uncounted, trackerVars, poll>>

Goes(c, pc) == call' = [call EXCEPT ![c].pc = pc]

Raises(c, exc) == call' = [call EXCEPT ![c].pc = "done", ![c].raised = exc]

\* Post(topic=topic, user=u).save() is called with a topic object read now.
CallPostSave(c, t, u, ts) ==
    /\ call[c].pc = "idle"
    /\ t \in DOMAIN topic
    /\ call' = [call EXCEPT ![c] =
            [Idle EXCEPT !.pc = "persist", !.op = "save",
                         !.self = [NewPost(t, u) EXCEPT !.created = ts],
                         !.topicObj = LoadTopic(Store, t)]]
    /\ UNCHANGED <<storeVars, nextPost, ghostVars>>

\* post.delete() is called on a post read now, with its topic.
CallPostDelete(c, p) ==
    /\ call[c].pc = "idle"
    /\ p \in DOMAIN post
    /\ call' = [call EXCEPT ![c] =
            [Idle EXCEPT !.pc = "head", !.op = "delete",
                         !.self = LoadPost(Store, p),
                         !.topicObj = LoadTopic(Store, post[p].topic)]]
    /\ UNCHANGED <<storeVars, nextPost, ghostVars>>

\* Post.save, super().save(): the insert fails on the foreign key when the
\* topic row is gone.
PersistPost(c) ==
    /\ call[c].pc = "persist"
    /\ IF call[c].self.topic \notin DOMAIN topic
       THEN /\ Raises(c, "IntegrityError")
            /\ UNCHANGED <<storeVars, nextPost>>
       ELSE LET d == Post_save_row(Store, call[c].self, nextPost, TRUE)
            IN /\ post' = d.post
               /\ profile' = d.profile
               /\ nextPost' = nextPost + 1
               /\ call' = [call EXCEPT ![c].pc = "topic_read",
                                       ![c].self.id = nextPost]
               /\ UNCHANGED <<forum, topic>>
    /\ UNCHANGED ghostVars

\* Post.delete, the head lookup: IndexError on a topic without posts, the
\* cascade for the head post, the single delete otherwise.
ReadHead(c) ==
    /\ call[c].pc = "head"
    /\ LET posts == TopicPosts(Store, call[c].topicObj.id)
       IN IF posts = {} THEN Raises(c, "IndexError")
          ELSE IF call[c].self.id = FirstPost(Store, posts)
          THEN Goes(c, "delete_topic")
          ELSE Goes(c, "delete_post")
    /\ UNCHANGED <<storeVars, nextPost, ghostVars>>

\* Post.delete, super().delete()
DeletePostRow(c) ==
    /\ call[c].pc = "delete_post"
    /\ LET d == Post_delete_row(Store, call[c].self)
       IN post' = d.post /\ profile' = d.profile
    /\ Goes(c, "topic_read")
    /\ UNCHANGED <<forum, topic, nextPost, ghostVars>>

\* Topic.delete, super().delete()
DeleteTopicRows(c) ==
    /\ call[c].pc = "delete_topic"
    /\ LET d == Topic_delete_rows(Store, call[c].topicObj)
       IN topic' = d.topic /\ post' = d.post /\ profile' = d.profile
    /\ Goes(c, "forum_read")
    /\ UNCHANGED <<forum, nextPost, ghostVars>>

\* Topic.update_counters, the queries (after the moderation rule in Post.save)
ReadTopicCounters(c) ==
    /\ call[c].pc = "topic_read"
    /\ LET t1 == IF call[c].op = "save"
                 THEN Post_moderate_topic(Store, call[c].self, call[c].topicObj)
                 ELSE call[c].topicObj
           r == Topic_counters_read(Store, t1)
       IN IF r.raised # "" THEN Raises(c, r.raised)
          ELSE call' = [call EXCEPT ![c].pc = "topic_write", ![c].topicObj = r.obj]
    /\ UNCHANGED <<storeVars, nextPost, ghostVars>>

\* Topic.update_counters, self.save()
WriteTopic(c) ==
    /\ call[c].pc = "topic_write"
    /\ LET r == Topic_save(Store, call[c].topicObj, NoId)
       IN /\ forum' = r.db.forum
          /\ topic' = r.db.topic
          /\ IF r.raised # "" THEN Raises(c, r.raised) ELSE Goes(c, "forum_read")
    /\ UNCHANGED <<post, profile, nextPost, ghostVars>>

\* Forum.update_counters of self.topic.forum, the queries
ReadForumCounters(c) ==
    /\ call[c].pc = "forum_read"
    /\ call' = [call EXCEPT
            ![c].pc = "forum_write",
            ![c].forumObj = Forum_counters_read(Store,
                                LoadForum(Store, call[c].topicObj.forum))]
    /\ UNCHANGED <<storeVars, nextPost, ghostVars>>

\* Forum.update_counters, self.save()
WriteForum(c) ==
    /\ call[c].pc = "forum_write"
    /\ forum' = Forum_save(Store, call[c].forumObj).forum
    /\ Goes(c, "done")
    /\ UNCHANGED <<topic, post, profile, nextPost, ghostVars>>

NextRace ==
    \/ \E c \in Callers, t \in 1..MaxTopics, u \in OneUser, ts \in Times :
            CallPostSave(c, t, u, ts)
    \/ \E c \in Callers, p \in 1..MaxPosts : CallPostDelete(c, p)
    \/ \E c \in Callers : PersistPost(c)
    \/ \E c \in Callers : ReadHead(c)
    \/ \E c \in Callers : DeletePostRow(c)
    \/ \E c \in Callers : DeleteTopicRows(c)
    \/ \E c \in Callers : ReadTopicCounters(c)
    \/ \E c \in Callers : WriteTopic(c)
    \/ \E c \in Callers : ReadForumCounters(c)
    \/ \E c \in Callers : WriteForum(c)

SpecRace == InitRace /\ [][NextRace]_vars

\* topic.forum = g; topic.save() by a caller, from a topic read now, taken
\* as a whole.
CallTopicMove(c, t, g) ==
    /\ call[c].pc = "idle"
    /\ t \in DOMAIN topic
    /\ LET r == Topic_save(Store, [LoadTopic(Store, t) EXCEPT !.forum = g], NoId)
       IN /\ forum' = r.db.forum
          /\ topic' = r.db.topic
          /\ call' = [call EXCEPT ![c] =
                [Idle EXCEPT !.pc = "done", !.op = "move", !.raised = r.raised]]
    /\ UNCHANGED <<post, profile, nextPost, ghostVars>>

\* The callers of Post.save and Post.delete, and callers that move a topic.
NextRaceMove ==
    \/ NextRace
    \/ \E c \in Callers, t \in 1..MaxTopics, g \in Forums : CallTopicMove(c, t, g)

SpecRaceMove == InitRace /\ [][NextRaceMove]_vars

\* ------------------------------------------------------------ read trackers
\* get_or_create_tracker of TopicReadTrackerManager and of
\* ForumReadTrackerManager (the same steps on their own tables), called by
\* concurrent sessions.  A session runs in autocommit, where every statement
\* is committed as it executes, or inside an enclosing transaction that it
\* later commits or rolls back and that may already have read (which fixes
\* its snapshot under REPEATABLE READ) and written.
InitTracker ==
    /\ forum = EmptyStore.forum
    /\ topic = << >>
    /\ post = << >>
    /\ profile = EmptyStore.profile
    /\ nextTopic = 1
    /\ nextPost = 1
    /\ last = NoOp
    /\ trip = << >>
    /\ uncounted = {}
    /\ call = [c \in Callers |-> Idle]
    /\ tracker = << >>
    /\ nextTracker = 1
    /\ isolation \in Levels
    /\ sess = [c \in Callers |-> NoSession]
    /\ poll = NoPoll

postVars ==
    <<forum, topic, post, profile, nextTopic, nextPost, last, trip, uncounted, call>>

lifecycleVars ==
    <<forum, topic, post, profile, nextTopic, nextPost, last, trip, uncounted, call,
      poll>>

\* unique_together: a committed row holds the key.
CommittedDuplicate(k) == \E i \in DOMAIN tracker : tracker[i].key = k

\* Another session's uncommitted insert holds the key: the unique index makes
\* this session's insert wait for that transaction to end.
PendingDuplicate(c, k) ==
    \E d \in Callers \ {c} :
        \E i \in DOMAIN sess[d].pending : sess[d].pending[i].key = k

\* The rows a read of session c sees: the committed rows (those of its
\* snapshot, once a REPEATABLE READ transaction has read) and its own
\* uncommitted ones.
Visible(c) ==
    (IF sess[c].snapped THEN sess[c].snapshot ELSE DOMAIN tracker)
        \cup DOMAIN sess[c].pending

KeyOf(c, i) ==
    IF i \in DOMAIN sess[c].pending THEN sess[c].pending[i].key ELSE tracker[i].key

\* objects.get_or_create_tracker(user, target) is entered, is_new = True and
\* sid = transaction.savepoint(): in autocommit, or in a transaction that has
\* read before (read) and written before (wrote).
CallTracker(c, k, mode, read, wrote) ==
    /\ sess[c].pc = "idle"
    /\ mode = "autocommit" => ~read /\ ~wrote
    /\ sess' = [sess EXCEPT ![c] =
            [NoSession EXCEPT
                !.pc = "insert", !.key = k, !.mode = mode,
                !.txn = IF mode = "atomic" THEN "open" ELSE "none",
                !.snapped = read /\ isolation = "REPEATABLE READ",
                !.snapshot = IF read /\ isolation = "REPEATABLE READ"
                             THEN DOMAIN tracker ELSE {},
                !.earlier = wrote]]
    /\ UNCHANGED <<lifecycleVars, tracker, nextTracker, isolation>>

\* objects.create(user=user, target=target) in the nested atomic block, then
\* savepoint_commit: a committed duplicate makes it raise IntegrityError, a
\* DatabaseError; an uncommitted one makes it wait; else the row is written
\* with time_stamp = ts and the call returns (obj, True).
InsertTracker(c, ts) ==
    /\ sess[c].pc = "insert"
    /\ IF CommittedDuplicate(sess[c].key)
       THEN /\ sess' = [sess EXCEPT ![c].pc = "fallback"]
            /\ UNCHANGED <<tracker, nextTracker>>
       ELSE /\ ~PendingDuplicate(c, sess[c].key)
            /\ LET row == [key |-> sess[c].key, time_stamp |-> ts]
               IN IF sess[c].mode = "autocommit"
                  THEN /\ tracker' = tracker @@ (nextTracker :> row)
                       /\ sess' = [sess EXCEPT ![c].pc = "returned",
                                               ![c].obj = nextTracker,
                                               ![c].is_new = TRUE]
                  ELSE /\ tracker' = tracker
                       /\ sess' = [sess EXCEPT ![c].pc = "returned",
                                               ![c].obj = nextTracker,
                                               ![c].is_new = TRUE,
                                               ![c].pending = @ @@ (nextTracker :> row)]
            /\ nextTracker' = nextTracker + 1
    /\ UNCHANGED <<lifecycleVars, isolation>>

\* The insert that waits on another session's uncommitted row gives up: the
\* database's lock wait timeout raises OperationalError, a DatabaseError.
InsertTimesOut(c) ==
    /\ sess[c].pc = "insert"
    /\ ~CommittedDuplicate(sess[c].key)
    /\ PendingDuplicate(c, sess[c].key)
    /\ sess' = [sess EXCEPT ![c].pc = "fallback"]
    /\ UNCHANGED <<lifecycleVars, tracker, nextTracker, isolation>>

\* Mutant of FallbackGet: the whole transaction is rolled back, not the
\* savepoint.
FallbackGet_rollback_all(c) ==
    /\ sess[c].pc = "fallback"
    /\ LET found == {i \in DOMAIN tracker : tracker[i].key = sess[c].key}
       IN sess' = [sess EXCEPT
            ![c].pending = << >>,
            ![c].earlier = FALSE,
            ![c].txn = IF sess[c].mode = "atomic" THEN "rolledback" ELSE @,
            ![c].pc = IF found = {} THEN "raised" ELSE "returned",
            ![c].raised = IF found = {} THEN "DoesNotExist" ELSE "",
            ![c].obj = IF found = {} THEN NoId ELSE CHOOSE i \in found : TRUE,
            ![c].is_new = FALSE]
    /\ UNCHANGED <<lifecycleVars, tracker, nextTracker, isolation>>

\* except DatabaseError: savepoint_rollback(sid), which undoes nothing the
\* transaction did before the savepoint, then objects.get(user, target): the
\* row this session sees is returned with is_new = False, and DoesNotExist
\* is raised when it sees none.
FallbackGet(c) ==
    /\ sess[c].pc = "fallback"
    /\ LET snap == /\ sess[c].mode = "atomic"
                   /\ isolation = "REPEATABLE READ"
                   /\ ~sess[c].snapped
           seen == IF snap THEN DOMAIN tracker \cup DOMAIN sess[c].pending
                   ELSE Visible(c)
           found == {i \in seen : KeyOf(c, i) = sess[c].key}
       IN sess' = [sess EXCEPT
            ![c].snapped = @ \/ snap,
            ![c].snapshot = IF snap THEN DOMAIN tracker ELSE @,
            ![c].pc = IF found = {} THEN "raised" ELSE "returned",
            ![c].raised = IF found = {} THEN "DoesNotExist" ELSE "",
            ![c].obj = IF found = {} THEN NoId ELSE CHOOSE i \in found : TRUE,
            ![c].is_new = FALSE]
    /\ UNCHANGED <<lifecycleVars, tracker, nextTracker, isolation>>

\* The enclosing transaction commits after the call has returned.
CommitSession(c) ==
    /\ sess[c].txn = "open"
    /\ sess[c].pc = "returned"
    /\ tracker' = tracker @@ sess[c].pending
    /\ sess' = [sess EXCEPT ![c].txn = "committed", ![c].pending = << >>]
    /\ UNCHANGED <<lifecycleVars, nextTracker, isolation>>

\* The enclosing transaction is rolled back, after the call has returned or
\* by the exception it raised.
RollbackSession(c) ==
    /\ sess[c].txn = "open"
    /\ sess[c].pc \in {"returned", "raised"}
    /\ sess' = [sess EXCEPT ![c].txn = "rolledback", ![c].pending = << >>,
                            ![c].earlier = FALSE]
    /\ UNCHANGED <<lifecycleVars, tracker, nextTracker, isolation>>

NextTracker ==
    \/ \E c \in Callers, k \in Keys, mode \in {"autocommit", "atomic"},
          read \in BOOLEAN, wrote \in BOOLEAN : CallTracker(c, k, mode, read, wrote)
    \/ \E c \in Callers, ts \in Times : InsertTracker(c, ts)
    \/ \E c \in Callers : InsertTimesOut(c)
    \/ \E c \in Callers : FallbackGet(c)
    \/ \E c \in Callers : CommitSession(c)
    \/ \E c \in Callers : RollbackSession(c)

SpecTracker == InitTracker /\ [][NextTracker]_vars

\* -------------------------------------------------------------------- polls
\* Python's float is the IEEE 754 double: a number m * 2^e with a significand
\* m of Mantissa bits, every operation rounded to the nearest such number,
\* ties to the even significand.  Naturals of any size are sequences of bits,
\* the most significant first.
Mantissa == 53

Zeros(k) == [i \in 1..k |-> 0]

RECURSIVE Bits(_)
Bits(n) == IF n = 0 THEN << >> ELSE Append(Bits(n \div 2), n % 2)

RECURSIVE Strip(_)
Strip(b) == IF b # << >> /\ b[1] = 0 THEN Strip(Tail(b)) ELSE b

\* The carry out of the bits lo..n of x + y: some position gives one (both
\* bits set) and every position above it passes it on (a bit set).
Carry(x, y, lo) ==
    \E j \in lo..Len(x) :
        /\ x[j] + y[j] = 2
        /\ \A k \in lo..(j - 1) : x[k] + y[k] >= 1

SameLength(x, y) ==
    Strip([i \in 1..Len(x) |->
            (x[i] + y[i] + IF Carry(x, y, i + 1) THEN 1 ELSE 0) % 2])

BitAdd(a, b) ==
    IF Len(a) >= Len(b)
    THEN SameLength(<<0>> \o a, Zeros(Len(a) + 1 - Len(b)) \o b)
    ELSE SameLength(Zeros(Len(b) + 1 - Len(a)) \o a, <<0>> \o b)

\* 2^j modulo t, by squaring
RECURSIVE Pow2Mod(_, _)
Pow2Mod(j, t) ==
    IF j = 0 THEN 1 % t
    ELSE (Pow2Mod(j \div 2, t) * Pow2Mod(j \div 2, t) * (IF j % 2 = 1 THEN 2 ELSE 1)) % t

RECURSIVE BitMul(_, _)
BitMul(a, n) ==
    IF n = 0 THEN << >>
    ELSE BitAdd(BitMul(a, n \div 2) \o <<0>>, IF n % 2 = 1 THEN a ELSE << >>)

BitLeq(a, b) ==
    LET x == Strip(a)
        y == Strip(b)
    IN \/ Len(x) < Len(y)
       \/ /\ Len(x) = Len(y)
          /\ \A i \in 1..Len(x) : (\A j \in 1..(i - 1) : x[j] = y[j]) => x[i] <= y[i]

FloatZero == [m |-> << >>, e |-> 0]

\* The double nearest to bits * 2^e, plus a fraction of 2^e when sticky.
Round(bits, sticky, e) ==
    LET b == Strip(bits)
        n == Len(b)
    IN IF n = 0 THEN FloatZero
       ELSE IF n <= Mantissa
       THEN [m |-> b \o Zeros(Mantissa - n), e |-> e - (Mantissa - n)]
       ELSE LET head == SubSeq(b, 1, Mantissa)
                rest == sticky \/ \E i \in (Mantissa + 2)..n : b[i] = 1
                up == b[Mantissa + 1] = 1 /\ (rest \/ head[Mantissa] = 1)
                r == IF up THEN BitAdd(head, <<1>>) ELSE head
            IN IF Len(r) > Mantissa
               THEN [m |-> SubSeq(r, 1, Mantissa), e |-> e + (n - Mantissa) + 1]
               ELSE [m |-> r, e |-> e + (n - Mantissa)]

\* 1.0 * v / t for naturals v and t > 0: the quotient of v * 2^(2 * Mantissa)
\* by t, rounded.  By long division the quotient's bit of weight
\* 2^(2 * Mantissa - i) is 2 * ((v * 2^(i - 1)) % t) \div t for i >= 1, the
\* bits above are those of v \div t, and the division leaves a remainder
\* when t does not divide v * 2^(2 * Mantissa).
FloatDiv(v, t) ==
    Round(Bits(v \div t) \o
            [i \in 1..(2 * Mantissa) |->
                (2 * (((v % t) * Pow2Mod(i - 1, t)) % t)) \div t],
          ((v % t) * Pow2Mod(2 * Mantissa, t)) % t # 0,
          0 - 2 * Mantissa)

\* x * n for a float x and a natural n
FloatMul(x, n) == Round(BitMul(x.m, n), FALSE, x.e)

\* PollAnswer.votes: self.users.count()
PollAnswer_votes(p, a) == Cardinality({r \in p.votes : r[1] = a})

\* Topic.poll_votes: the PollAnswerUser rows of the topic's answers, None
\* (here -1) for a topic without a poll.
Topic_poll_votes(p) ==
    IF p.poll_type # POLL_TYPE_NONE THEN Cardinality(p.votes) ELSE 0 - 1

\* Mutant of PollAnswer_votes_percent: the fraction, not multiplied by 100.
PollAnswer_votes_fraction(p, a) ==
    IF Topic_poll_votes(p) > 0
    THEN FloatDiv(PollAnswer_votes(p, a), Topic_poll_votes(p))
    ELSE FloatZero

\* PollAnswer.votes_percent: 1.0 * self.votes() / topic_votes * 100, or 0
PollAnswer_votes_percent(p, a) ==
    LET topic_votes == Topic_poll_votes(p)
    IN IF topic_votes > 0
       THEN FloatMul(FloatDiv(PollAnswer_votes(p, a), topic_votes), 100)
       ELSE FloatZero

InitPoll ==
    /\ forum = EmptyStore.forum
    /\ topic = << >>
    /\ post = << >>
    /\ profile = EmptyStore.profile
    /\ nextTopic = 1
    /\ nextPost = 1
    /\ last = NoOp
    /\ trip = << >>
    /\ uncounted = {}
    /\ call = [c \in Callers |-> Idle]
    /\ NoTrackers
    /\ \E pt \in {POLL_TYPE_SINGLE, POLL_TYPE_MULTIPLE} :
            poll = [NoPoll EXCEPT !.poll_type = pt]

\* PollAnswerUser(poll_answer=a, user=u).save(): unique_together allows one
\* row per answer and user; a single-answer poll takes one answer per user.
Vote(a, u) ==
    /\ <<a, u>> \notin poll.votes
    /\ poll.poll_type = POLL_TYPE_SINGLE => \A r \in poll.votes : r[2] # u
    /\ poll' = [poll EXCEPT !.votes = @ \cup {<<a, u>>}]
    /\ UNCHANGED <<postVars, trackerVars>>

\* votes_percent() of every answer of the topic, as the poll is shown.
ShowPoll ==
    /\ poll' = [poll EXCEPT
            !.shown = [a \in Answers |-> PollAnswer_votes_percent(poll, a)],
            !.at = poll.votes]
    /\ UNCHANGED <<postVars, trackerVars>>

NextPoll ==
    \/ \E a \in Answers, u \in Voters : Vote(a, u)
    \/ ShowPoll

SpecPoll == InitPoll /\ [][NextPoll]_vars

\* ------------------------------------------------------------------ claims
\* p sorts first by (created, id) among the posts S of store db.
IsHeadOf(db, p, S) ==
    \A j \in S \ {p} :
        \/ db.post[p].created < db.post[j].created
        \/ db.post[p].created = db.post[j].created /\ p < j

StoreAfter == [forum |-> forum', topic |-> topic', post |-> post', profile |-> profile']

\* C1: after each completed operation every topic's persisted post_count is
\* the number of post rows in that topic.
TopicPostCountExact ==
    last.op \in {"Post.create", "Post.save", "Post.delete"} /\ last.raised = "" =>
        \A t \in DOMAIN topic :
            topic[t].post_count = Cardinality(TopicPosts(Store, t))

\* C2: after each completed operation every forum's persisted post_count is
\* the number of post rows whose topic belongs to that forum.
ForumPostCountExact ==
    last.op # "none" /\ last.raised = "" =>
        \A f \in Forums :
            forum[f].post_count = Cardinality(ForumPosts(Store, f))

\* C3 as stated: after each completed operation, Create Topic included, every
\* forum's persisted topic_count is the number of its topic rows.
ForumTopicCountExact ==
    last.raised = "" =>
        \A f \in Forums :
            forum[f].topic_count = Cardinality(ForumTopics(Store, f))

\* C3 as amended: every forum's persisted topic_count is the number of its
\* topic rows, except for a forum that was given a new topic and has not
\* been recomputed since.
ForumTopicCountUnlessUncounted ==
    \A f \in Forums \ uncounted :
        forum[f].topic_count = Cardinality(ForumTopics(Store, f))

\* C3 witness: a topic move has recomputed a forum that now counts two topics,
\* created without a recompute.
ForumCountsMovedTopics ==
    /\ last.op = "Topic.save"
    /\ last.raised = ""
    /\ \E f \in Forums \ uncounted :
        /\ forum[f].topic_count = 2
        /\ topic[last.t].forum = f

\* C4: Post.delete of the head post of its topic (the minimum by
\* (created, id)) removes the topic and all its posts; of any other post it
\* removes that post alone, the topic and its other posts stay and the
\* topic's post_count is the number of posts that remain.
PostDeleteCascade ==
    [][last'.op = "Post.delete" =>
        LET p == last'.p
            t == last'.t
            S == TopicPosts(Store, t)
        IN IF IsHeadOf(Store, p, S)
           THEN /\ t \notin DOMAIN topic'
                /\ post' = [i \in DOMAIN post \ S |-> post[i]]
           ELSE /\ post' = [i \in DOMAIN post \ {p} |-> post[i]]
                /\ t \in DOMAIN topic'
                /\ topic'[t].post_count = Cardinality(S) - 1
                /\ topic'[t].forum = topic[t].forum
    ]_vars

\* C4 witness: a post with a smaller id than the two posts that remain was
\* deleted alone, its topic kept: it was created after the head.
NonHeadDeleted ==
    /\ last.op = "Post.delete"
    /\ last.t \in DOMAIN topic
    /\ last.p \notin DOMAIN post
    /\ Cardinality(TopicPosts(Store, last.t)) = 2
    /\ \A i \in TopicPosts(Store, last.t) : last.p < i
    /\ topic[last.t].post_count = 2

\* C5 as stated: a topic moved from forum A to forum B and straight back
\* leaves post_count and topic_count of A and B as they were before the
\* first move.
RoundTripRestores ==
    Len(trip) = 2 => Counters(Store) = trip[1].pre

\* C5 as amended: the round trip leaves the counters of A and B as they were
\* before the first move when they were the true counts then.
RoundTripRestoresExact ==
    Len(trip) = 2 /\ trip[1].exact => Counters(Store) = trip[1].pre

\* C5 witness: a topic with posts has gone from a forum with exact counters
\* to the other forum and back.
RoundTripDone ==
    /\ Len(trip) = 2
    /\ trip[1].exact
    /\ last.op = "Topic.save"
    /\ topic[last.t].post_count = 2
    /\ forum[topic[last.t].forum].topic_count = 2

\* C7: a Post.save on a topic that is on moderation leaves the topic's
\* persisted flag false when the saved post is the topic's head post and is
\* itself not on moderation, and true otherwise (a head post on moderation,
\* or any other post).
ModerationAutoClear ==
    [][last'.op \in {"Post.create", "Post.save"} /\ topic[last'.t].on_moderation =>
        LET p == last'.p
            t == last'.t
            head == IsHeadOf(StoreAfter, p, TopicPosts(StoreAfter, t))
        IN topic'[t].on_moderation = ~(head /\ ~post'[p].on_moderation)
    ]_vars

\* C7 witness: the head post of a moderated topic was saved off moderation
\* while the topic holds another post, and the topic's flag is cleared.
HeadApproved ==
    /\ last.op = "Post.save"
    /\ last.tmod
    /\ ~topic[last.t].on_moderation
    /\ ~post[last.p].on_moderation
    /\ Cardinality(TopicPosts(Store, last.t)) = 2

\* C8: an operation that fails leaves the store as it was before the call.
FailedOperationRollsBack ==
    [][last'.raised # "" => UNCHANGED storeVars]_vars

\* C9: once all concurrent callers of Post.save and Post.delete have
\* completed, every topic's post_count and every forum's post_count are the
\* numbers of post rows.
RaceCountersConverge ==
    (\A c \in Callers : call[c].pc = "done" /\ call[c].raised = "") =>
        /\ \A t \in DOMAIN topic :
                topic[t].post_count = Cardinality(TopicPosts(Store, t))
        /\ \A f \in Forums :
                forum[f].post_count = Cardinality(ForumPosts(Store, f))

\* The callers' initial store is one the sequential operations reach.
RaceStoreReachable == \A g \in Forums : RaceStore(g) = RaceStoreBuilt(g)

\* The call of session c is over, with its transaction.
Finished(c) == sess[c].pc \in {"returned", "raised"} /\ sess[c].txn # "open"

CallersOf(k) == {c \in Callers : sess[c].key = k}

\* What C6 promises of the callers of one key.
ExactlyOneCreates(k) ==
    /\ Cardinality({c \in CallersOf(k) : sess[c].pc = "returned" /\ sess[c].is_new}) = 1
    /\ \A c \in CallersOf(k) : sess[c].pc = "returned"
    /\ \A c, d \in CallersOf(k) : sess[c].obj = sess[d].obj
    /\ Cardinality({i \in DOMAIN tracker : tracker[i].key = k}) = 1

\* C6: when the concurrent callers of get_or_create_tracker for one
\* (user, target) are all over, none of the inserted rows having been rolled
\* back, exactly one has returned is_new = True, the others is_new = False,
\* all the same row, and one row exists.
TrackerRaceExactlyOne ==
    \A k \in Keys :
        /\ CallersOf(k) # {}
        /\ \A c \in Callers : Finished(c)
        /\ \A c \in CallersOf(k) : ~(sess[c].is_new /\ sess[c].txn = "rolledback")
        => ExactlyOneCreates(k)

\* C6 for callers in autocommit, where it holds.
TrackerRaceAutocommit ==
    \A k \in Keys :
        /\ CallersOf(k) # {}
        /\ \A c \in Callers : Finished(c) /\ sess[c].mode = "autocommit"
        => ExactlyOneCreates(k)

\* C10: get_or_create_tracker never raises: a failed insert is followed by a
\* fallback read that returns a tracker.
TrackerNeverRaises == \A c \in Callers : sess[c].raised = ""

\* C11: after every Post create and delete, the cascade of a head post's
\* delete included, each user's profile post_count is the number of Post rows
\* of that user.
ProfilePostCountExact ==
    \A u \in Users : profile[u].post_count = Cardinality(UserPosts(Store, u))

\* A head post's delete has taken its topic and the posts of two users with
\* it, and a post of one of them is left.
ProfileAfterCascade ==
    /\ last.op = "Post.delete"
    /\ last.raised = ""
    /\ last.t \notin DOMAIN topic
    /\ nextPost = MaxPosts + 1
    /\ Cardinality(DOMAIN post) = 1
    /\ \E u \in Users : profile[u].post_count = 1

\* The votes the shown percentages were computed from.
VotesAt(a) == Cardinality({r \in poll.at : r[1] = a})

TotalAt == Cardinality(poll.at)

\* The tolerance of a percentage: 2^-Precision.
Precision == 40

\* The float x is num / den, and is within 2^-Precision * slack of it.
Exactly(x, num, den) ==
    BitMul(x.m, den) = Strip(Bits(num) \o Zeros(0 - x.e))

Within(x, num, den, slack) ==
    LET A == BitMul(x.m, den) \o Zeros(Precision)
        B == Bits(num) \o Zeros(Precision - x.e)
        C == Bits(den * slack) \o Zeros(0 - x.e)
    IN BitLeq(A, BitAdd(B, C)) /\ BitLeq(B, BitAdd(A, C))

\* The sum of the shown percentages, in units of 2^-SumScale.
SumScale == CHOOSE k \in 0..(3 * Mantissa) :
    /\ \A a \in Answers : k + poll.shown[a].e >= 0
    /\ \E a \in Answers : k + poll.shown[a].e = 0

RECURSIVE SumShown(_)
SumShown(n) ==
    IF n = 0 THEN << >>
    ELSE BitAdd(SumShown(n - 1),
                poll.shown[n].m \o Zeros(SumScale + poll.shown[n].e))

ShownSum == [m |-> SumShown(MaxAnswers), e |-> 0 - SumScale]

\* C12: votes_percent(a) is votes(a) / total * 100, and 0 when total is 0;
\* the percentages of a topic with votes sum to 100.
VotesPercentExact ==
    poll.shown # << >> =>
        /\ \A a \in Answers :
            IF TotalAt = 0 THEN poll.shown[a] = FloatZero
            ELSE Exactly(poll.shown[a], 100 * VotesAt(a), TotalAt)
        /\ TotalAt > 0 => Exactly(ShownSum, 100, 1)

\* C12, amended: votes_percent(a) is 0 when total is 0 and else the float
\* nearest to the float quotient votes(a) / total times 100, which is within
\* 2^-Precision of votes(a) / total * 100 and is that number when total is a
\* power of two; the percentages of a topic with votes sum to 100 to within
\* 2^-Precision each.
VotesPercentRounded ==
    poll.shown # << >> =>
        /\ \A a \in Answers :
            IF TotalAt = 0 THEN poll.shown[a] = FloatZero
            ELSE /\ Within(poll.shown[a], 100 * VotesAt(a), TotalAt, 1)
                 /\ (\E k \in 0..TotalAt : 2 ^ k = TotalAt) =>
                        Exactly(poll.shown[a], 100 * VotesAt(a), TotalAt)
        /\ TotalAt > 0 => Within(ShownSum, 100, 1, MaxAnswers)

\* One vote and two votes are shown as percentages that do not sum to 100.
ThirdsShown ==
    /\ poll.shown # << >>
    /\ VotesAt(1) = 1
    /\ VotesAt(2) = 2
    /\ TotalAt = 3
    /\ ~Exactly(ShownSum, 100, 1)

\* C13: after every completed operation a forum without posts has updated
\* null, also when its last post went with a deleted or moved topic.
EmptyForumUpdatedNull ==
    last.op # "none" /\ last.raised = "" =>
        \A f \in Forums : ForumPosts(Store, f) = {} => forum[f].updated = NULL

\* C13, amended: an operation leaves the updated of a forum without posts
\* as it was before the operation: null for a forum that never had a post,
\* the stamp of its former latest post once its last post has gone.
EmptyForumUpdatedKept ==
    [][\A f \in Forums :
            ForumPosts(StoreAfter, f) = {} => forum'[f].updated = forum[f].updated]_vars

\* A topic's delete or move has taken the last post of a forum, which keeps
\* its stamp.
EmptiedForumKeepsStamp ==
    /\ last.op \in {"Topic.delete", "Topic.save"}
    /\ last.raised = ""
    /\ \E f \in Forums :
        /\ ForumPosts(Store, f) = {}
        /\ forum[f].post_count = 0
        /\ forum[f].updated # NULL

\* C14: Forum.update_counters on a forum with posts sets updated to the
\* maximum of (updated or created) over the posts under the forum.
ForumUpdatedIsMax ==
    /\ last.op \in {"Post.create", "Post.save", "Post.delete"}
    /\ last.raised = ""
    /\ last.t \in DOMAIN topic
    => LET f == topic[last.t].forum
       IN /\ \A i \in ForumPosts(Store, f) :
                UpdatedOrCreated(post[i]) <= forum[f].updated
          /\ \E i \in ForumPosts(Store, f) :
                UpdatedOrCreated(post[i]) = forum[f].updated

\* The topics a completed Post.save or Post.delete step recomputes: the
\* post's topic and, when the post was moved, the topic it came from.
Affected ==
    ({last'.t} \cup (IF last'.p \in DOMAIN post THEN {post[last'.p].topic} ELSE {}))
        \cap DOMAIN topic'

\* C15: after every completed Post create, update, move or non-head delete
\* the persisted updated of each affected topic is (updated or created) of
\* the topic's post greatest by (created, id).
TopicUpdatedIsLatest ==
    [][/\ last'.op \in {"Post.create", "Post.save", "Post.delete"}
       /\ last'.raised = ""
       => \A t \in Affected :
            \E i \in TopicPosts(StoreAfter, t) :
                /\ \A j \in TopicPosts(StoreAfter, t) \ {i} :
                    \/ post'[j].created < post'[i].created
                    \/ post'[j].created = post'[i].created /\ j < i
                /\ topic'[t].updated = UpdatedOrCreated(post'[i])]_vars

\* A post is saved in a topic whose latest post, by id among two posts
\* created together, is not the post edited last.
LatestByIdNotByEdit ==
    /\ last.op = "Post.save"
    /\ last.raised = ""
    /\ last.t \in DOMAIN topic
    /\ \E i, j \in TopicPosts(Store, last.t) :
        /\ i < j
        /\ post[i].created = post[j].created
        /\ UpdatedOrCreated(post[i]) > UpdatedOrCreated(post[j])
        /\ topic[last.t].updated = UpdatedOrCreated(post[j])

\* C16: Topic.update_counters on a topic without posts raises to its caller
\* and writes nothing; Forum.update_counters on a forum without posts
\* succeeds, writes post_count = 0 and leaves updated as it was.
RecountOfEmpty ==
    [][/\ (last'.op = "Topic.update_counters" /\ TopicPosts(Store, last'.t) = {})
            => /\ last'.raised = "IndexError"
               /\ UNCHANGED storeVars
       /\ \A f \in Forums :
            (last'.op = RecountOp(f) /\ ForumPosts(Store, f) = {})
            => /\ last'.raised = ""
               /\ forum'[f].post_count = 0
               /\ forum'[f].updated = forum[f].updated
               /\ UNCHANGED <<topic, post, profile>>]_vars

\* Topic.update_counters has raised on a topic whose row counts a post it no
\* longer has, and a forum emptied of posts has been recomputed.
RecountOfEmptyRaised ==
    /\ last.op = "Topic.update_counters"
    /\ last.raised = "IndexError"
    /\ topic[last.t].post_count > 0
    /\ \E f \in Forums :
        /\ ForumPosts(Store, f) = {}
        /\ forum[f].post_count = 0
        /\ forum[f].updated # NULL

\* C17: when Post.delete looks up the topic's first post and the topic has
\* no post left, the call raises nothing and deletes nothing.
DeleteWithoutHeadIsNoOp ==
    [][\A c \in Callers :
        /\ call[c].pc = "head"
        /\ call'[c].pc # "head"
        /\ TopicPosts(Store, call[c].topicObj.id) = {}
        => /\ call'[c].raised = ""
           /\ UNCHANGED storeVars]_vars

\* C18: the head checks of Post.save and Post.delete use the first post by
\* (created, id) among the topic's posts as the store has them at the check:
\* a saved post that is then the first, is not on moderation and whose topic
\* object is, takes the topic off moderation, also when the object's head
\* was read before; a deleted post takes the topic with it exactly when it
\* is then the first.
HeadCheckedFresh ==
    [][\A c \in OneUser :
        /\ (/\ call[c].pc = "holding"
            /\ call'[c].pc = "saved"
            /\ last'.raised = ""
            /\ IsHeadOf(StoreAfter, last'.p, TopicPosts(StoreAfter, last'.t))
            /\ ~post'[last'.p].on_moderation
            /\ call[c].topicObj.on_moderation)
           => ~topic'[last'.t].on_moderation
        /\ (/\ call[c].pc = "holding"
            /\ call'[c].pc = "deleted"
            /\ last'.raised = "")
           => (last'.t \notin DOMAIN topic'
                <=> IsHeadOf(Store, last'.p, TopicPosts(Store, last'.t)))]_vars

\* C19: when get_or_create_tracker runs inside an enclosing transaction and
\* its insert has failed, the savepoint rollback and the fallback read leave
\* the transaction open with its earlier writes, add no tracker row and
\* leave the existing rows, time_stamp included, as they were.
SavepointFrame ==
    [][\A c \in Callers :
        /\ sess[c].pc = "fallback"
        /\ sess'[c].pc # "fallback"
        /\ sess[c].mode = "atomic"
        => /\ sess'[c].txn = "open"
           /\ sess'[c].earlier = sess[c].earlier
           /\ sess'[c].pending = sess[c].pending
           /\ tracker' = tracker
           /\ nextTracker' = nextTracker]_vars

\* A call inside a transaction that had written before has found the
\* committed row of another session after its own insert failed.
FallbackInsideTransaction ==
    \E c \in Callers :
        /\ sess[c].pc = "returned"
        /\ ~sess[c].is_new
        /\ sess[c].mode = "atomic"
        /\ sess[c].txn = "open"
        /\ sess[c].earlier
        /\ sess[c].obj \in DOMAIN tracker

\* C20: the save that ends the topic recompute of Post.save and Post.delete
\* leaves the topic's persisted forum as the store has it, so that a move of
\* the topic completed since the caller read the topic is kept.
RecomputeKeepsForum ==
    [][\A c \in Callers :
        /\ call[c].pc = "topic_write"
        /\ call'[c].pc # "topic_write"
        /\ call[c].topicObj.id \in DOMAIN topic
        => topic'[call[c].topicObj.id].forum = topic[call[c].topicObj.id].forum]_vars

====
